---- MODULE Spec2Model ----
(***************************************************************************)
(* Model of rdb's DiskTable (src/src/main.rs): a key-value table made of a *)
(* commit log, an in-memory map of pending mutations and an sstable file,  *)
(* with the compaction that merges them; of the InMemoryTable it is        *)
(* compared with; and of Command::parse.                                   *)
(*                                                                         *)
(* Keys are 1..NumKeys; the integer order stands for the byte-wise order   *)
(* of the key strings.  Values are 1..NumVals; None (0) is Option::None.   *)
(* Value 1 is a one-byte string, every other value a BigValLen-byte one.   *)
(***************************************************************************)
EXTENDS Integers, Sequences, FiniteSets, TLC

NumKeys == 2
NumVals == 2
MaxLog == 2
BigValLen == 8140

\* ReadLimit::default() of the commitlog crate, used by DiskTable::new: 8 KiB.
ReadLimitBytes == 8192
\* Bytes the commitlog crate stores in front of every payload.
MsgHeaderLen == 20

Keys == 1..NumKeys
Values == 1..NumVals
None == 0

SSTABLE == "sstable"
SSTABLE_NEW == "sstable.new"
SSTABLE_OLD == "sstable.old"
TableFiles == {SSTABLE, SSTABLE_NEW, SSTABLE_OLD}

EmptyTable == [k \in Keys |-> None]
NoMutations == [k \in Keys |-> <<>>]
NoCmd == [op |-> "NONE", key |-> 0, val |-> 0]

VARIABLES
    files,      \* names of the table files that exist in the directory
    disk,       \* contents of each table file
    log,        \* records of the commit log, oldest first
    flushed,    \* how many records of log a flush has made durable
    mutations,  \* DiskTable.mutations: key -> Vec<Command> (<<>>: no entry)
    sstable,    \* DiskTable.sstable: contents of the file the handle opened
    builder,    \* (key, value) pairs passed to the TableBuilder of compact
    pc,         \* position of the process inside the current call
    cmd,        \* the call in progress, or the last one completed
    ret,        \* what the last completed call returned
    pre,        \* history: the table as it was when cmd was called
    down,       \* history: how and at which pc the process before this one stopped
    acked,      \* history: how many records of log belong to calls that returned true
    mem,        \* an InMemoryTable given the same calls, and what it last returned
    line,       \* main's line, split at whitespace into tokens
    parsed      \* what Command::parse returned for line

vars == <<files, disk, log, flushed, mutations, sstable, builder,
          pc, cmd, ret, pre, down, acked, mem, line, parsed>>

----------------------------------------------------------------------------
(* Command and its CBOR encoding                                           *)

INSERT(key, val) == [op |-> "INSERT", key |-> key, val |-> val]
DELETE(key) == [op |-> "DELETE", key |-> key, val |-> None]

\* serde_cbor::to_vec(&cmd): the variant name followed by its fields.
to_vec(c) ==
    IF c.op = "INSERT" THEN <<"INSERT", c.key, c.val>> ELSE <<c.op, c.key>>

\* serde_cbor::from_slice(payload)
from_slice(bytes) ==
    IF bytes[1] = "INSERT" THEN INSERT(bytes[2], bytes[3])
    ELSE IF bytes[1] = "DELETE" THEN DELETE(bytes[2])
    ELSE NoCmd

\* Command::key
CmdKey(c) == IF c.op \in {"SELECT", "INSERT", "DELETE"} THEN c.key ELSE None

ValLen(v) == IF v = 1 THEN 1 ELSE BigValLen

\* Size of a record in the log: header, variant name, key, value.  The few
\* framing bytes of CBOR are left out; they do not change which records of
\* the sizes used here fit in one read.
MsgSize(bytes) ==
    MsgHeaderLen + 6 + 1 + (IF Len(bytes) = 3 THEN ValLen(bytes[3]) ELSE 0)

RECURSIVE LogBytes(_)
LogBytes(l) == IF l = <<>> THEN 0 ELSE MsgSize(Head(l)) + LogBytes(Tail(l))

\* The longest prefix of whole records of l that fits in budget bytes.
RECURSIVE FitPrefix(_, _)
FitPrefix(l, budget) ==
    IF l = <<>> \/ MsgSize(Head(l)) > budget THEN <<>>
    ELSE <<Head(l)>> \o FitPrefix(Tail(l), budget - MsgSize(Head(l)))

\* commitlog.read(0, ReadLimit::default()): one batch from offset 0, which
\* is the rest of the segment when that is shorter than the limit.
CommitLogRead(l) ==
    IF LogBytes(l) < ReadLimitBytes THEN l ELSE FitPrefix(l, ReadLimitBytes)

\* mutations.entry(key).or_insert(Default::default()).push(cmd)
Push(muts, c) == [muts EXCEPT ![c.key] = Append(@, c)]

\* The replay loop of DiskTable::new over the messages read.
RECURSIVE Replay(_, _)
Replay(msgs, muts) ==
    IF msgs = <<>> THEN muts
    ELSE LET c == from_slice(Head(msgs))
         IN Replay(Tail(msgs),
                   IF CmdKey(c) = None THEN muts ELSE Push(muts, c))

----------------------------------------------------------------------------
(* compact_key                                                             *)

\* One arm of the match in compact_key's loop.
ApplyCmdKeepsOnDelete(final_val, c) ==
    IF c.op = "INSERT" THEN c.val
    ELSE final_val
ApplyCmd(final_val, c) ==
    IF c.op = "INSERT" THEN c.val
    ELSE IF c.op = "DELETE" THEN None
    ELSE final_val

RECURSIVE ApplyCmds(_, _)
ApplyCmds(final_val, cmds) ==
    IF cmds = <<>> THEN final_val
    ELSE ApplyCmds(ApplyCmd(final_val, Head(cmds)), Tail(cmds))

\* DiskTable::compact_key on table contents tbl and mutations muts.
compact_key(tbl, muts, key) == ApplyCmds(tbl[key], muts[key])

\* Every key's compact_key.
Effective(tbl, muts) == [k \in Keys |-> compact_key(tbl, muts, k)]

----------------------------------------------------------------------------
(* The merge loop of compact                                               *)

\* The keys of S in ascending order, from key k on: what an iterator yields.
RECURSIVE Ascending(_, _)
Ascending(S, k) ==
    IF k > NumKeys THEN <<>>
    ELSE (IF k \in S THEN <<k>> ELSE <<>>) \o Ascending(S, k + 1)

\* self.sstable.iter(): the keys stored in the table, ascending.
sstable_iter(tbl) == Ascending({k \in Keys : tbl[k] # None}, 1)
\* self.mutations.iter(): the keys of the BTreeMap, ascending.
mut_iter(muts) == Ascending({k \in Keys : muts[k] # <<>>}, 1)

NewBuilder == [adds |-> <<>>, panic |-> "none"]

\* builder.add(key, val).expect(..): the builder rejects a key that is not
\* greater than the last one added, and the expect then panics.
BuilderAdd(st, key, val) ==
    [adds |-> Append(st.adds, <<key, val>>),
     panic |-> IF st.adds # <<>> /\ st.adds[Len(st.adds)][1] >= key
               THEN "order" ELSE "none"]

\* match self.compact_key(mut_key) { None => (), Some(val) => builder.add }
EmitIgnoresDelete(st, tbl, muts, mut_key) ==
    IF muts[mut_key] # <<>> /\ muts[mut_key][1].op = "INSERT"
    THEN BuilderAdd(st, mut_key, muts[mut_key][1].val)
    ELSE IF compact_key(tbl, muts, mut_key) = None THEN st
    ELSE BuilderAdd(st, mut_key, compact_key(tbl, muts, mut_key))
Emit(st, tbl, muts, mut_key) ==
    IF compact_key(tbl, muts, mut_key) = None THEN st
    ELSE BuilderAdd(st, mut_key, compact_key(tbl, muts, mut_key))

\* x.0.cmp(&sstable_key) is Ordering::Less
IsLessOrEqual(mut_key, sstable_key) == mut_key <= sstable_key
IsLess(mut_key, sstable_key) == mut_key < sstable_key

\* The loop of the arm sstable_iter.next() = None: the rest of mut_iter.
RECURSIVE Drain(_, _, _, _, _)
Drain(st, tbl, muts, mkeys, mi) ==
    IF st.panic # "none" \/ mi > Len(mkeys) THEN st
    ELSE Drain(Emit(st, tbl, muts, mkeys[mi]), tbl, muts, mkeys, mi + 1)

\* The loop of the arm sstable_iter.next() = Some: mut_iter.next() is taken
\* before the comparison, so the key that ends the loop is consumed too.
RECURSIVE Inner(_, _, _, _, _, _)
Inner(st, tbl, muts, mkeys, mi, sstable_key) ==
    IF st.panic # "none" \/ mi > Len(mkeys) THEN [st |-> st, mi |-> mi]
    ELSE IF IsLess(mkeys[mi], sstable_key)
         THEN Inner(Emit(st, tbl, muts, mkeys[mi]), tbl, muts, mkeys, mi + 1,
                    sstable_key)
         ELSE [st |-> st, mi |-> mi + 1]

\* The outer loop; position si of skeys and mi of mkeys are the iterators.
RECURSIVE Outer(_, _, _, _, _, _, _)
Outer(st, tbl, muts, skeys, si, mkeys, mi) ==
    IF st.panic # "none" THEN st
    ELSE IF si > Len(skeys) THEN Drain(st, tbl, muts, mkeys, mi)
    ELSE LET r == Inner(st, tbl, muts, mkeys, mi, skeys[si])
             val == compact_key(tbl, muts, skeys[si])
         IN IF r.st.panic # "none" THEN r.st
            ELSE IF val = None
                 THEN [r.st EXCEPT !.panic = "nokey"]  \* expect("Failed to get key")
                 ELSE Outer(BuilderAdd(r.st, skeys[si], val), tbl, muts,
                            skeys, si + 1, mkeys, r.mi)

\* Lines 209-257 of compact.
Merge(tbl, muts) ==
    Outer(NewBuilder, tbl, muts, sstable_iter(tbl), 1, mut_iter(muts), 1)

\* The table file that builder.finish() leaves.
BuiltTable(adds) ==
    [k \in Keys |->
        IF \E i \in 1..Len(adds) : adds[i][1] = k
        THEN adds[CHOOSE i \in 1..Len(adds) : adds[i][1] = k][2]
        ELSE None]

----------------------------------------------------------------------------
(* File system                                                             *)

\* std::fs::rename(from, to) on the pair <<files, disk>>.
RenameLosesFile(fs, from, to) ==
    [files |-> fs.files \ {from},
     disk |-> [fs.disk EXCEPT ![from] = EmptyTable]]
Rename(fs, from, to) ==
    [files |-> (fs.files \ {from}) \cup {to},
     disk |-> [fs.disk EXCEPT ![to] = fs.disk[from], ![from] = EmptyTable]]

\* std::fs::remove_file(name)
RemoveFile(fs, name) ==
    [files |-> fs.files \ {name},
     disk |-> [fs.disk EXCEPT ![name] = EmptyTable]]

\* File::create(name): creates or truncates.
CreateFile(fs, name) ==
    [files |-> fs.files \cup {name},
     disk |-> [fs.disk EXCEPT ![name] = EmptyTable]]

FS == [files |-> files, disk |-> disk]

----------------------------------------------------------------------------
(* InMemoryTable                                                           *)

\* InMemoryTable::new: an empty BTreeMap.  ret is what its last call gave.
\* main uses the DiskTable alone (NoMem); the runs that compare the two
\* tables give every call to an InMemoryTable as well.
NewMem == [on |-> TRUE, db |-> EmptyTable, ret |-> None]
NoMem == [on |-> FALSE, db |-> EmptyTable, ret |-> None]

\* select: db.get(key)
MemSelect(db, key) == [db |-> db, ret |-> db[key]]

\* insert: false when db.contains_key(key), else db.insert and true
MemInsert(db, key, val) ==
    IF db[key] # None THEN [db |-> db, ret |-> FALSE]
    ELSE [db |-> [db EXCEPT ![key] = val], ret |-> TRUE]

\* delete: db.remove and true when db.contains_key(key), else false
MemDelete(db, key) ==
    IF db[key] # None THEN [db |-> [db EXCEPT ![key] = None], ret |-> TRUE]
    ELSE [db |-> db, ret |-> FALSE]

\* The call c of Command::execute made on the InMemoryTable m, if there is one.
MemCall(m, c) ==
    IF ~m.on THEN m
    ELSE LET r == CASE c.op = "SELECT" -> MemSelect(m.db, c.key)
                    [] c.op = "INSERT" -> MemInsert(m.db, c.key, c.val)
                    [] c.op = "DELETE" -> MemDelete(m.db, c.key)
         IN [on |-> TRUE, db |-> r.db, ret |-> r.ret]

----------------------------------------------------------------------------
(* Command::parse                                                          *)

\* A token is the sequence of its characters; a line the sequence of tokens
\* that split_whitespace yields.
ToUpper(c) ==
    CASE c = "s" -> "S" [] c = "e" -> "E" [] c = "l" -> "L" [] c = "c" -> "C"
      [] c = "t" -> "T" [] c = "i" -> "I" [] c = "n" -> "N" [] c = "r" -> "R"
      [] c = "d" -> "D" [] OTHER -> c

ToLower(c) ==
    CASE c = "S" -> "s" [] c = "E" -> "e" [] c = "L" -> "l" [] c = "C" -> "c"
      [] c = "T" -> "t" [] c = "I" -> "i" [] c = "N" -> "n" [] c = "R" -> "r"
      [] c = "D" -> "d" [] OTHER -> c

\* The token with the characters at the positions of caps in upper case.
Cased(tok, caps) ==
    [i \in 1..Len(tok) |-> IF i \in caps THEN ToUpper(tok[i]) ELSE tok[i]]
Lowered(tok) == [i \in 1..Len(tok) |-> ToLower(tok[i])]
AllUpper(tok) == Cased(tok, 1..Len(tok))

\* The string literals of parse's match arms.
select == <<"s", "e", "l", "e", "c", "t">>
insert == <<"i", "n", "s", "e", "r", "t">>
delete == <<"d", "e", "l", "e", "t", "e">>
dotdump == <<".", "d", "u", "m", "p">>
dotexit == <<".", "e", "x", "i", "t">>
dotcompact == <<".", "c", "o", "m", "p", "a", "c", "t">>

DUMP == [op |-> "DUMP", key |-> 0, val |-> 0]
EXIT == [op |-> "EXIT", key |-> 0, val |-> 0]
COMPACT == [op |-> "COMPACT", key |-> 0, val |-> 0]
SELECT(key) == [op |-> "SELECT", key |-> key, val |-> None]

\* Command::parse on the tokens of a line; NoCmd is Option::None.
parse(tokens) ==
    IF tokens = <<>> THEN NoCmd
    ELSE LET c == tokens[1]
         IN IF c = dotdump THEN DUMP
            ELSE IF c = dotexit THEN EXIT
            ELSE IF c = dotcompact THEN COMPACT
            ELSE IF Len(tokens) < 2 THEN NoCmd
            ELSE LET arg == tokens[2]
                 IN IF c = select \/ c = AllUpper(select) THEN SELECT(arg)
                    ELSE IF c = insert \/ c = AllUpper(insert)
                         THEN IF Len(tokens) < 3 THEN NoCmd
                              ELSE INSERT(arg, tokens[3])
                    ELSE IF c = delete \/ c = AllUpper(delete)
                         THEN DELETE(arg)
                    ELSE NoCmd

\* The lines given to parse: every upper/lower-case spelling of the three
\* words, the dot commands and a word that is no command, each followed by
\* up to MaxArgs more tokens.
MaxArgs == 2
Words ==
    {Cased(w, caps) : w \in {select, insert, delete}, caps \in SUBSET (1..Len(select))}
        \cup {dotdump, dotexit, dotcompact, <<"x">>}
ArgTokens == <<<<"k">>, <<"v">>, <<"w">>>>
Lines ==
    {<<>>} \cup {<<w>> \o SubSeq(ArgTokens, 1, n) : w \in Words, n \in 0..MaxArgs}

\* parsed before parse has run on line.
Unparsed == [op |-> "UNPARSED", key |-> 0, val |-> 0]

----------------------------------------------------------------------------
(* State                                                                   *)

Snapshot ==
    [log |-> log, mutations |-> mutations, sstable |-> sstable,
     file |-> disk[SSTABLE]]
NoSnapshot ==
    [log |-> <<>>, mutations |-> NoMutations, sstable |-> EmptyTable,
     file |-> EmptyTable]
NeverDown == [how |-> "never", at |-> "idle"]
OPEN == [op |-> "OPEN", key |-> 0, val |-> 0]

CompactPcs ==
    {"cmp_merge", "cmp_finish", "cmp_rename_old", "cmp_rename_new",
     "cmp_remove_old", "cmp_reopen", "cmp_remove_log", "cmp_clear"}

\* The state DiskTable::new leaves on a directory that did not exist.
InitTable ==
    /\ files = {SSTABLE}
    /\ disk = [f \in TableFiles |-> EmptyTable]
    /\ log = <<>>
    /\ flushed = 0
    /\ mutations = NoMutations
    /\ sstable = EmptyTable
    /\ builder = NewBuilder
    /\ pc = "idle"
    /\ cmd = OPEN
    /\ ret = None
    /\ pre = NoSnapshot
    /\ down = NeverDown
    /\ acked = 0

\* main before it has read a line.
Init ==
    /\ InitTable
    /\ mem = NoMem
    /\ line = <<>>
    /\ parsed = Unparsed

\* The same with an InMemoryTable beside the DiskTable.
InitRef ==
    /\ InitTable
    /\ mem = NewMem
    /\ line = <<>>
    /\ parsed = Unparsed

\* main with a line read and not yet parsed.
InitParse ==
    /\ InitTable
    /\ mem = NoMem
    /\ line \in Lines
    /\ parsed = Unparsed

tablevars == <<files, disk, log, flushed, mutations, sstable, builder,
               pc, cmd, ret, pre, down, acked, mem>>

Idle == pc = "idle"

\* A call begins: remember it and the table it was made on.
Begin(c) ==
    /\ Idle
    /\ cmd' = c
    /\ pre' = Snapshot
    /\ down' = NeverDown

----------------------------------------------------------------------------
(* DiskTable::new                                                          *)

\* Lines 151-155: an sstable that does not exist is created empty.
EnsureTable(fs) == IF SSTABLE \in fs.files THEN fs ELSE CreateFile(fs, SSTABLE)

\* Lines 162-173: read the log and replay it into mutations.
Recover(l) == Replay(CommitLogRead(l), NoMutations)

\* The process stops and DiskTable::new runs on the directory it left.
\* Nothing in memory survives.  Of the records appended but not flushed any
\* number may have reached the disk: keep records are there.
Reopen(how, keep) ==
    /\ LET fs == EnsureTable(FS)
       IN /\ files' = fs.files
          /\ disk' = fs.disk
          /\ sstable' = fs.disk[SSTABLE]
    /\ log' = SubSeq(log, 1, keep)
    /\ flushed' = keep
    /\ acked' = IF acked > keep THEN keep ELSE acked
    /\ mutations' = Recover(log')
    /\ pc' = "idle"
    /\ cmd' = OPEN
    /\ ret' = None
    /\ pre' = NoSnapshot
    /\ down' = [how |-> how, at |-> pc]
    /\ UNCHANGED <<mem, line, parsed>>

----------------------------------------------------------------------------
(* DatabaseTable for DiskTable                                             *)

\* select
SelectLogged(key) ==
    /\ Begin(SELECT(key))
    /\ ret' = compact_key(sstable, mutations, key)
    /\ log' = IF Len(log) < MaxLog THEN Append(log, to_vec(cmd')) ELSE log
    /\ UNCHANGED <<files, disk, flushed, mutations, sstable, builder,
                   pc, acked>>
    /\ mem' = MemCall(mem, cmd')
    /\ UNCHANGED <<line, parsed>>
Select(key) ==
    /\ Begin(SELECT(key))
    /\ ret' = compact_key(sstable, mutations, key)
    /\ UNCHANGED <<files, disk, log, flushed, mutations, sstable, builder,
                   pc, acked>>
    /\ mem' = MemCall(mem, cmd')
    /\ UNCHANGED <<line, parsed>>

\* insert, line 272: the match on compact_key; the Some arm returns false.
InsertRejectsOnTableOnly(tbl, muts, key) == tbl[key] # None
InsertRejects(tbl, muts, key) == compact_key(tbl, muts, key) # None
Insert(key, val) ==
    /\ Begin(INSERT(key, val))
    /\ IF InsertRejects(sstable, mutations, key)
       THEN pc' = "idle" /\ ret' = FALSE
            /\ mem' = MemCall(mem, cmd')
       ELSE Len(log) < MaxLog /\ pc' = "ins_append" /\ ret' = None
            /\ UNCHANGED mem
    /\ UNCHANGED <<files, disk, log, flushed, mutations, sstable, builder,
                   acked>>
    /\ UNCHANGED <<line, parsed>>

\* insert, line 276: commitlog.append_msg
InsertAppend ==
    /\ pc = "ins_append"
    /\ log' = Append(log, to_vec(cmd))
    /\ pc' = "ins_push"
    /\ UNCHANGED <<files, disk, flushed, mutations, sstable, builder,
                   cmd, ret, pre, down, acked>>
    /\ UNCHANGED <<mem, line, parsed>>

\* insert, line 277: mutations.entry(key).or_insert(..).push(cmd)
InsertPush ==
    /\ pc = "ins_push"
    /\ mutations' = Push(mutations, cmd)
    /\ pc' = "ins_flush"
    /\ UNCHANGED <<files, disk, log, flushed, sstable, builder,
                   cmd, ret, pre, down, acked>>
    /\ UNCHANGED <<mem, line, parsed>>

\* insert, line 278: commitlog.flush
InsertFlush ==
    /\ pc = "ins_flush"
    /\ flushed' = Len(log)
    /\ pc' = "ins_ret"
    /\ UNCHANGED <<files, disk, log, mutations, sstable, builder,
                   cmd, ret, pre, down, acked>>
    /\ UNCHANGED <<mem, line, parsed>>

\* insert, line 279: true
InsertReturn ==
    /\ pc = "ins_ret"
    /\ ret' = TRUE
    /\ mem' = MemCall(mem, cmd)
    /\ acked' = Len(log)
    /\ pc' = "idle"
    /\ UNCHANGED <<files, disk, log, flushed, mutations, sstable, builder,
                   cmd, pre, down>>
    /\ UNCHANGED <<line, parsed>>

\* delete, line 289: the match on compact_key; the None arm returns false.
DeleteRejectsOnTableOnly(tbl, muts, key) == tbl[key] = None
DeleteRejects(tbl, muts, key) == compact_key(tbl, muts, key) = None
Delete(key) ==
    /\ Begin(DELETE(key))
    /\ IF DeleteRejects(sstable, mutations, key)
       THEN pc' = "idle" /\ ret' = FALSE
            /\ mem' = MemCall(mem, cmd')
       ELSE Len(log) < MaxLog /\ pc' = "del_append" /\ ret' = None
            /\ UNCHANGED mem
    /\ UNCHANGED <<files, disk, log, flushed, mutations, sstable, builder,
                   acked>>
    /\ UNCHANGED <<line, parsed>>

\* delete, line 292
DeleteAppend ==
    /\ pc = "del_append"
    /\ log' = Append(log, to_vec(cmd))
    /\ pc' = "del_push"
    /\ UNCHANGED <<files, disk, flushed, mutations, sstable, builder,
                   cmd, ret, pre, down, acked>>
    /\ UNCHANGED <<mem, line, parsed>>

\* delete, line 293
DeletePush ==
    /\ pc = "del_push"
    /\ mutations' = Push(mutations, cmd)
    /\ pc' = "del_flush"
    /\ UNCHANGED <<files, disk, log, flushed, sstable, builder,
                   cmd, ret, pre, down, acked>>
    /\ UNCHANGED <<mem, line, parsed>>

\* delete, line 294
DeleteFlush ==
    /\ pc = "del_flush"
    /\ flushed' = Len(log)
    /\ pc' = "del_ret"
    /\ UNCHANGED <<files, disk, log, mutations, sstable, builder,
                   cmd, ret, pre, down, acked>>
    /\ UNCHANGED <<mem, line, parsed>>

\* delete, line 295
DeleteReturn ==
    /\ pc = "del_ret"
    /\ ret' = TRUE
    /\ mem' = MemCall(mem, cmd)
    /\ acked' = Len(log)
    /\ pc' = "idle"
    /\ UNCHANGED <<files, disk, log, flushed, mutations, sstable, builder,
                   cmd, pre, down>>
    /\ UNCHANGED <<line, parsed>>

----------------------------------------------------------------------------
(* DiskTable::compact                                                      *)

\* Line 207: File::create(sstable.new) and a builder on it.
CompactCreate ==
    /\ Begin(COMPACT)
    /\ LET fs == CreateFile(FS, SSTABLE_NEW)
       IN files' = fs.files /\ disk' = fs.disk
    /\ builder' = NewBuilder
    /\ ret' = None
    /\ pc' = "cmp_merge"
    /\ UNCHANGED <<log, flushed, mutations, sstable, acked>>
    /\ UNCHANGED <<mem, line, parsed>>

\* Lines 209-257: the merge.  A panic of an expect ends the process; what
\* the builder had written to sstable.new by then is never read again.
CompactMerge ==
    /\ pc = "cmp_merge"
    /\ builder' = Merge(sstable, mutations)
    /\ pc' = IF builder'.panic # "none" THEN "panicked" ELSE "cmp_finish"
    /\ UNCHANGED <<files, disk, log, flushed, mutations, sstable,
                   cmd, ret, pre, down, acked>>
    /\ UNCHANGED <<mem, line, parsed>>

\* Line 258: builder.finish()
CompactFinishRemovesLog ==
    /\ pc = "cmp_finish"
    /\ disk' = [disk EXCEPT ![SSTABLE_NEW] = BuiltTable(builder.adds)]
    /\ log' = <<>>
    /\ flushed' = 0
    /\ pc' = "cmp_rename_old"
    /\ UNCHANGED <<files, mutations, sstable, builder,
                   cmd, ret, pre, down, acked>>
    /\ UNCHANGED <<mem, line, parsed>>
CompactFinish ==
    /\ pc = "cmp_finish"
    /\ disk' = [disk EXCEPT ![SSTABLE_NEW] = BuiltTable(builder.adds)]
    /\ pc' = "cmp_rename_old"
    /\ UNCHANGED <<files, log, flushed, mutations, sstable, builder,
                   cmd, ret, pre, down, acked>>
    /\ UNCHANGED <<mem, line, parsed>>

\* Line 259: rename(sstable, sstable.old)
CompactRenameOld ==
    /\ pc = "cmp_rename_old"
    /\ LET fs == Rename(FS, SSTABLE, SSTABLE_OLD)
       IN files' = fs.files /\ disk' = fs.disk
    /\ pc' = "cmp_rename_new"
    /\ UNCHANGED <<log, flushed, mutations, sstable, builder,
                   cmd, ret, pre, down, acked>>
    /\ UNCHANGED <<mem, line, parsed>>

\* Line 260: rename(sstable.new, sstable)
CompactRenameNew ==
    /\ pc = "cmp_rename_new"
    /\ LET fs == Rename(FS, SSTABLE_NEW, SSTABLE)
       IN files' = fs.files /\ disk' = fs.disk
    /\ pc' = "cmp_remove_old"
    /\ UNCHANGED <<log, flushed, mutations, sstable, builder,
                   cmd, ret, pre, down, acked>>
    /\ UNCHANGED <<mem, line, parsed>>

\* Line 261: remove_file(sstable.old)
CompactRemoveOld ==
    /\ pc = "cmp_remove_old"
    /\ LET fs == RemoveFile(FS, SSTABLE_OLD)
       IN files' = fs.files /\ disk' = fs.disk
    /\ pc' = "cmp_reopen"
    /\ UNCHANGED <<log, flushed, mutations, sstable, builder,
                   cmd, ret, pre, down, acked>>
    /\ UNCHANGED <<mem, line, parsed>>

\* Line 262: self.sstable = Table::new_from_file(sstable)
CompactReopen ==
    /\ pc = "cmp_reopen"
    /\ sstable' = disk[SSTABLE]
    /\ pc' = "cmp_remove_log"
    /\ UNCHANGED <<files, disk, log, flushed, mutations, builder,
                   cmd, ret, pre, down, acked>>
    /\ UNCHANGED <<mem, line, parsed>>

\* Line 264: remove_dir_all(commitlog), not commitlog.truncate(0), which
\* line 263 says leaves one element.
RemoveLogLeavesOne(l) == IF l = <<>> THEN <<>> ELSE <<l[Len(l)]>>
RemoveLog(l) == <<>>
CompactRemoveLog ==
    /\ pc = "cmp_remove_log"
    /\ log' = RemoveLog(log)
    /\ flushed' = Len(log')
    /\ acked' = 0
    /\ pc' = "cmp_clear"
    /\ UNCHANGED <<files, disk, mutations, sstable, builder,
                   cmd, ret, pre, down>>
    /\ UNCHANGED <<mem, line, parsed>>

\* Lines 265-266: a new CommitLog on the directory, and mutations.clear()
CompactClear ==
    /\ pc = "cmp_clear"
    /\ mutations' = NoMutations
    /\ pc' = "idle"
    /\ UNCHANGED <<files, disk, log, flushed, sstable, builder,
                   cmd, ret, pre, down, acked>>
    /\ UNCHANGED <<mem, line, parsed>>

----------------------------------------------------------------------------
(* The process                                                             *)

\* .dump: DiskTable::dump prints mutations.
Dump ==
    /\ Begin(DUMP)
    /\ ret' = None
    /\ UNCHANGED <<files, disk, log, flushed, mutations, sstable, builder,
                   pc, acked>>
    /\ UNCHANGED <<mem, line, parsed>>

\* A line that parse returns None for: main prints "Unrecognized command".
Unrecognized ==
    /\ Begin(NoCmd)
    /\ ret' = None
    /\ UNCHANGED <<files, disk, log, flushed, mutations, sstable, builder,
                   pc, acked>>
    /\ UNCHANGED <<mem, line, parsed>>

\* main, line 309: Command::parse(&line)
ParseLine ==
    /\ parsed = Unparsed
    /\ parsed' = parse(line)
    /\ UNCHANGED <<line, tablevars>>

\* main, lines 306-307: the loop comes round and reads the next line.
ReadLine ==
    /\ parsed # Unparsed
    /\ \E l \in Lines : line' = l
    /\ parsed' = Unparsed
    /\ UNCHANGED tablevars

\* .exit: main's loop breaks between two calls; main is run again.
ExitReopen ==
    /\ Idle
    /\ Reopen("exit", Len(log))
    /\ builder' = NewBuilder

\* The process is killed, between calls or between two steps of one, and
\* main is run again.
CrashReopen ==
    /\ pc # "panicked"
    /\ \E keep \in flushed..Len(log) : Reopen("crash", keep)
    /\ builder' = NewBuilder

\* main is run again after a panic in compact.
PanicReopen ==
    /\ pc = "panicked"
    /\ Reopen("panic", flushed)
    /\ UNCHANGED builder

Next ==
    \/ \E key \in Keys : Select(key)
    \/ Dump
    \/ Unrecognized
    \/ \E key \in Keys, val \in Values : Insert(key, val)
    \/ InsertAppend
    \/ InsertPush
    \/ InsertFlush
    \/ InsertReturn
    \/ \E key \in Keys : Delete(key)
    \/ DeleteAppend
    \/ DeletePush
    \/ DeleteFlush
    \/ DeleteReturn
    \/ CompactCreate
    \/ CompactMerge
    \/ CompactFinish
    \/ CompactRenameOld
    \/ CompactRenameNew
    \/ CompactRemoveOld
    \/ CompactReopen
    \/ CompactRemoveLog
    \/ CompactClear
    \/ ExitReopen
    \/ CrashReopen
    \/ PanicReopen

Spec == Init /\ [][Next]_vars

NextCalls ==
    \/ \E key \in Keys : Select(key)
    \/ Dump
    \/ Unrecognized
    \/ \E key \in Keys, val \in Values : Insert(key, val)
    \/ InsertAppend
    \/ InsertPush
    \/ InsertFlush
    \/ InsertReturn
    \/ \E key \in Keys : Delete(key)
    \/ DeleteAppend
    \/ DeletePush
    \/ DeleteFlush
    \/ DeleteReturn
    \/ CompactCreate
    \/ CompactMerge
    \/ CompactFinish
    \/ CompactRenameOld
    \/ CompactRenameNew
    \/ CompactRemoveOld
    \/ CompactReopen
    \/ CompactRemoveLog
    \/ CompactClear
    \/ ExitReopen
    \/ PanicReopen

SpecCalls == Init /\ [][NextCalls]_vars

\* insert, select and delete calls with .exit and a new run between them:
\* no compaction and no kill.
NextRef ==
    \/ \E key \in Keys : Select(key)
    \/ \E key \in Keys, val \in Values : Insert(key, val)
    \/ InsertAppend
    \/ InsertPush
    \/ InsertFlush
    \/ InsertReturn
    \/ \E key \in Keys : Delete(key)
    \/ DeleteAppend
    \/ DeletePush
    \/ DeleteFlush
    \/ DeleteReturn
    \/ ExitReopen

SpecRef == InitRef /\ [][NextRef]_vars

\* main's loop reading lines and parsing them, nothing executed.
NextParse ==
    \/ ParseLine
    \/ ReadLine

SpecParse == InitParse /\ [][NextParse]_vars

----------------------------------------------------------------------------
(* Properties                                                              *)

Eff == Effective(sstable, mutations)
EffBefore == Effective(pre.sstable, pre.mutations)
CompactDone == pc = "idle" /\ cmd.op = "COMPACT"

\* s is a prefix of t
IsPrefix(s, t) == Len(s) <= Len(t) /\ SubSeq(t, 1, Len(s)) = s

\* C1: after a compact that completes, select of every key returns what it
\* returned just before the compact.
CompactPreservesValues == CompactDone => Eff = EffBefore

\* C2: a compact started with a key that is in the table and whose pending
\* commands leave it absent does not panic, and when it completes the new
\* table has no entry for the key.
CompactDropsDeletedKey ==
    \A k \in Keys :
        (cmd.op = "COMPACT" /\ pre.sstable[k] # None /\ EffBefore[k] = None)
            => /\ pc # "panicked"
               /\ CompactDone => (sstable[k] = None /\ disk[SSTABLE][k] = None)

\* C3: closing and reopening the table leaves select of every key as it was,
\* and the reopened table holds the replay of every record of the log.
ReopenKeepsValues ==
    [][ExitReopen =>
          /\ Effective(sstable', mutations') = Eff
          /\ mutations' = Replay(log, NoMutations)]_vars

\* C4: after a crash outside compact and a reopen, the commands of the calls
\* that had returned true are in mutations, in log order, and when the crash
\* came between two calls select of every key returns what it returned.
AckedSurvivesCrash ==
    [][(CrashReopen /\ pc \notin CompactPcs) =>
          /\ \A k \in Keys :
                IsPrefix(Replay(SubSeq(log, 1, acked), NoMutations)[k],
                         mutations'[k])
          /\ Idle => Effective(sstable', mutations') = Eff]_vars

\* C5: after a crash between two steps of compact and a reopen, select of
\* every key returns what it returned before the compact started.  Stated
\* for a log that one read returns whole; a longer log is the case of C3.
CrashInCompactKeepsValues ==
    [][(CrashReopen /\ pc \in CompactPcs /\ CommitLogRead(log) = log) =>
          Effective(sstable', mutations') = EffBefore]_vars

\* C6: whenever the file sstable is missing, sstable.new or sstable.old
\* exists.
LayoutInvariant ==
    SSTABLE \notin files => (SSTABLE_NEW \in files \/ SSTABLE_OLD \in files)
LayoutWitness ==
    pc = "cmp_rename_new" /\ SSTABLE \notin files /\ log # <<>>

\* C7: insert of a key that select finds returns false and changes neither
\* the log, nor mutations, nor the table; insert of a key that select does
\* not find returns true and select then returns the value inserted.
InsertIsCreate ==
    (pc = "idle" /\ cmd.op = "INSERT") =>
        /\ EffBefore[cmd.key] # None =>
              /\ ret = FALSE
              /\ log = pre.log /\ mutations = pre.mutations
              /\ sstable = pre.sstable /\ disk[SSTABLE] = pre.file
        /\ EffBefore[cmd.key] = None =>
              /\ ret = TRUE
              /\ compact_key(sstable, mutations, cmd.key) = cmd.val
InsertWitness ==
    /\ pc = "idle" /\ cmd.op = "INSERT" /\ ret = FALSE
    /\ sstable[cmd.key] = None /\ mutations[cmd.key] # <<>>

\* C8: delete of a key that select does not find returns false and changes
\* neither the log, nor mutations, nor the table; delete of a key that
\* select finds returns true and select then finds nothing.
DeleteRequiresPresence ==
    (pc = "idle" /\ cmd.op = "DELETE") =>
        /\ EffBefore[cmd.key] = None =>
              /\ ret = FALSE
              /\ log = pre.log /\ mutations = pre.mutations
              /\ sstable = pre.sstable /\ disk[SSTABLE] = pre.file
        /\ EffBefore[cmd.key] # None =>
              /\ ret = TRUE
              /\ compact_key(sstable, mutations, cmd.key) = None
DeleteWitness ==
    /\ pc = "idle" /\ cmd.op = "DELETE" /\ ret = FALSE
    /\ sstable[cmd.key] # None /\ mutations[cmd.key] # <<>>

\* C9: the keys compact passes to the builder are strictly ascending, and
\* the builder rejects none of them.
MergeKeysAscending ==
    /\ builder.panic # "order"
    /\ \A i \in 1..(Len(builder.adds) - 1) :
          builder.adds[i][1] < builder.adds[i + 1][1]
MergeWitness ==
    /\ pc = "cmp_finish" /\ Len(builder.adds) = 2
    /\ sstable[1] = None /\ sstable[2] # None /\ mutations[1] # <<>>

\* C10: after a compact that completes, mutations is empty, the log is
\* empty, and a reopen would replay nothing.
CompactEmptiesLog ==
    CompactDone =>
        /\ mutations = NoMutations
        /\ log = <<>>
        /\ Recover(log) = NoMutations
CompactEmptiesLogWitness ==
    CompactDone /\ pre.log # <<>> /\ pre.sstable # EmptyTable

\* C11: when a select, a .dump, an unrecognized command, or an insert or
\* delete that returned false has completed, the log, mutations and the
\* table are as they were when it was called; a log longer than at the call
\* belongs to an insert or delete that did not return false; and what a
\* select returned is what select of that key returns on the state it left.
ReadsChangeNothing ==
    /\ (/\ pc = "idle"
        /\ \/ cmd.op \in {"SELECT", "DUMP", "NONE"}
           \/ cmd.op \in {"INSERT", "DELETE"} /\ ret = FALSE)
          => /\ log = pre.log /\ mutations = pre.mutations
             /\ sstable = pre.sstable /\ disk[SSTABLE] = pre.file
    /\ (cmd.op # "OPEN" /\ Len(log) > Len(pre.log))
          => cmd.op \in {"INSERT", "DELETE"} /\ (pc = "idle" => ret = TRUE)
    /\ (pc = "idle" /\ cmd.op = "SELECT")
          => ret = compact_key(sstable, mutations, cmd.key)
ReadsWitness ==
    /\ pc = "idle" /\ cmd.op = "SELECT" /\ ret # None
    /\ log # <<>> /\ sstable # EmptyTable

\* C12: between two calls mutations is the replay of the whole log from its
\* start, every key's commands in log order, and every command stored
\* under a key has that key as its subject.
IndexIsReplayOfLog ==
    Idle =>
        /\ mutations = Replay(log, NoMutations)
        /\ \A k \in Keys : \A i \in 1..Len(mutations[k]) :
              CmdKey(mutations[k][i]) = k

\* C13: parse of a line whose first token is select, insert or delete in
\* any mix of upper and lower case, followed by the key (and for insert
\* the value), is that command on that key (and value).
ParseIgnoresCase ==
    (parsed # Unparsed /\ line # <<>>) =>
        LET w == Lowered(line[1])
        IN /\ (w = select /\ Len(line) >= 2) => parsed = SELECT(line[2])
           /\ (w = insert /\ Len(line) >= 3)
                 => parsed = INSERT(line[2], line[3])
           /\ (w = delete /\ Len(line) >= 2) => parsed = DELETE(line[2])

\* The same for the spellings all in lower case or all in upper case.
ParseOneCase ==
    (/\ parsed # Unparsed /\ line # <<>>
     /\ line[1] \in {Lowered(line[1]), AllUpper(Lowered(line[1]))})
        => ParseIgnoresCase

\* The steps of an insert or delete that did not reject.
Pushes == pc \in {"ins_push", "del_push"} /\ cmd' = cmd
Flushes == pc \in {"ins_flush", "del_flush"} /\ cmd' = cmd
Returns == pc \in {"ins_ret", "del_ret"} /\ cmd' = cmd
LastOf(seq) == seq[Len(seq)]

\* C14: inside an insert or delete that does not reject, the record is
\* appended first, flushed next, then the command is pushed onto mutations,
\* and then the call returns: the push happens with the record in the log
\* and flushed, the return with the command in mutations.
AppendFlushPushReturn ==
    [][/\ Pushes => /\ log # <<>> /\ LastOf(log) = to_vec(cmd)
                    /\ flushed = Len(log)
       /\ Returns => /\ flushed = Len(log)
                     /\ mutations[cmd.key] # <<>>
                     /\ LastOf(mutations[cmd.key]) = cmd]_vars

\* The order the code has: append, push, flush, return.
AppendPushFlushReturn ==
    [][/\ Pushes => log # <<>> /\ LastOf(log) = to_vec(cmd)
       /\ Flushes => /\ mutations[cmd.key] # <<>>
                     /\ LastOf(mutations[cmd.key]) = cmd
       /\ Returns => flushed = Len(log)]_vars

\* The new table is finished and stands under the name sstable.
NewTableInPlace ==
    /\ SSTABLE \in files /\ SSTABLE_NEW \notin files
    /\ disk[SSTABLE] = BuiltTable(builder.adds)

\* C15: a step of compact that removes the log, one that clears mutations
\* and one that deletes sstable.old are each taken with the new table
\* finished and renamed to sstable.
RenameBeforeClear ==
    [][(cmd.op = "COMPACT" /\ cmd' = cmd) =>
          /\ log' # log => NewTableInPlace
          /\ mutations' # mutations => NewTableInPlace /\ log = <<>>
          /\ (SSTABLE_OLD \in files /\ SSTABLE_OLD \notin files')
                => NewTableInPlace]_vars
RenameBeforeClearWitness ==
    /\ CompactDone /\ pre.log # <<>> /\ pre.mutations # NoMutations
    /\ disk[SSTABLE] # pre.file /\ SSTABLE_OLD \notin files

\* C16: in a compact started with a key that is not in the table and whose
\* pending commands leave it absent, the key is never given to the builder
\* and sstable.new gets no entry for it; when the compact has completed
\* the table has no entry for it and select returns None.
CompactSkipsAbsentKey ==
    \A k \in Keys :
        (/\ cmd.op = "COMPACT"
         /\ pre.sstable[k] = None /\ pre.mutations[k] # <<>>
         /\ EffBefore[k] = None)
            => /\ \A i \in 1..Len(builder.adds) : builder.adds[i][1] # k
               /\ disk[SSTABLE_NEW][k] = None
               /\ CompactDone => /\ sstable[k] = None
                                 /\ disk[SSTABLE][k] = None
                                 /\ compact_key(sstable, mutations, k) = None
CompactSkipsAbsentKeyWitness ==
    /\ CompactDone
    /\ \E k \in Keys :
          /\ pre.sstable[k] = None /\ Len(pre.mutations[k]) > 1
          /\ EffBefore[k] = None
          /\ \E j \in Keys : pre.sstable[j] # None

\* k was in the table with no pending command when the compact was called.
Untouched(k) ==
    cmd.op = "COMPACT" /\ pre.sstable[k] # None /\ pre.mutations[k] = <<>>
Copied(k) ==
    /\ pc \notin {"cmp_merge", "idle"} =>
          \E i \in 1..Len(builder.adds) :
              builder.adds[i] = <<k, pre.sstable[k]>>
    /\ CompactDone =>
          sstable[k] = pre.sstable[k] /\ disk[SSTABLE][k] = pre.sstable[k]

\* C17: a compact called with a key in the table and no pending command
\* for it gives the key and its value to the builder, whatever the other
\* keys of mutations are, and the table it leaves holds the key with that
\* value.
CompactCopiesUntouchedKey == \A k \in Keys : Untouched(k) => Copied(k)

\* The same for the compactions whose merge does not panic.
CompactCopiesUnlessPanic ==
    \A k \in Keys : (Untouched(k) /\ pc # "panicked") => Copied(k)

\* C18: every select, insert and delete on the DiskTable, with .exit and a
\* new run between them and no compaction, returns what the same call on
\* an InMemoryTable given the same calls returns.
RefinesInMemory ==
    (pc = "idle" /\ cmd.op \in {"SELECT", "INSERT", "DELETE"})
        => ret = mem.ret

\* C19: after a crash of compact with sstable.new renamed to sstable and
\* the log not yet removed, and a reopen that replays that log over the new
\* table, select of every key returns what it returned before the compact
\* started.
ReplayOverNewTable ==
    [][(/\ CrashReopen
        /\ pc \in {"cmp_remove_old", "cmp_reopen", "cmp_remove_log"})
          => Effective(sstable', mutations') = EffBefore]_vars

\* C20: between two calls, with no kill before, every key's commands in
\* mutations alternate between INSERT and DELETE, and the first of them is
\* a DELETE when the key is in the table and an INSERT when it is not.
PendingAlternates ==
    Idle =>
        \A k \in Keys :
            /\ \A i \in 1..(Len(mutations[k]) - 1) :
                  mutations[k][i].op # mutations[k][i + 1].op
            /\ mutations[k] # <<>> =>
                  mutations[k][1].op =
                      IF sstable[k] # None THEN "DELETE" ELSE "INSERT"
PendingAlternatesWitness ==
    /\ Idle
    /\ \E k \in Keys :
          /\ sstable[k] # None /\ Len(mutations[k]) = 2
          /\ mutations[k][1].op = "DELETE" /\ mutations[k][2].op = "INSERT"

====
